---- MODULE Spec2Model ----
(***************************************************************************)
(* Model of the sarif handler of govulncheck (internal/sarif/handler.go)   *)
(* and of the emitters that feed it (internal/vulncheck emit functions).   *)
(* The handler collects OSV entries and findings, keeps per OSV the        *)
(* findings at one level of granularity, and at Flush builds the sarif     *)
(* log from them.                                                          *)
(***************************************************************************)
EXTENDS Integers, Sequences, FiniteSets, TLC

(***************************************************************************)
(* Strings.  A Go string is modelled as the sequence of its characters so  *)
(* that concatenation and the bytewise order of < are computed, not        *)
(* assumed.  Ascii lists the characters the model uses in ascending byte   *)
(* order.                                                                  *)
(***************************************************************************)
Ascii ==
    << " ", ",", ".", "/", "1", "2", "3", "A", "F", "G", "R", "V",
       "a", "b", "c", "e", "f", "i", "k", "l", "m", "n", "o", "r", "s",
       "t", "u", "v" >>

Code == [c \in {Ascii[i] : i \in 1..Len(Ascii)} |->
            CHOOSE i \in 1..Len(Ascii) : Ascii[i] = c]

\* s < t for Go strings: bytewise lexicographic order, compared from index i.
RECURSIVE StrLessFrom(_, _, _)
StrLessFrom(s, t, i) ==
    IF i > Len(t) THEN FALSE
    ELSE IF i > Len(s) THEN TRUE
    ELSE IF s[i] = t[i] THEN StrLessFrom(s, t, i + 1)
    ELSE Code[s[i]] < Code[t[i]]

StrLess(s, t) == StrLessFrom(s, t, 1)

Empty == << >>

(***************************************************************************)
(* Bounds of the model.                                                    *)
(***************************************************************************)
\* Number of calls of Finding one handler receives.
MaxFindings == 3
\* Number of OSV and Finding submissions of the first of two runs.
MaxSubs == 3

(***************************************************************************)
(* The analysed program: modules, packages, functions and call stacks the  *)
(* emitters draw their frames from.                                        *)
(***************************************************************************)
ModM == [Path |-> <<"m">>]
ModN == [Path |-> <<"n">>]
Modules == {ModM, ModN}

PkgA == [PkgPath |-> <<"m", "/", "a">>, Module |-> ModM]
PkgB == [PkgPath |-> <<"n", "/", "b">>, Module |-> ModN]
PkgMain == [PkgPath |-> <<"a">>, Module |-> [Path |-> <<"a">>]]
Packages == {PkgA, PkgB}

\* FuncNode: a function of the call graph.
FnF == [Package |-> PkgA, Name |-> <<"F">>, Recv |-> Empty]
FnRG == [Package |-> PkgB, Name |-> <<"G">>, Recv |-> <<"R">>]
FnMain == [Package |-> PkgMain, Name |-> <<"m">>, Recv |-> Empty]
FnCaller == [Package |-> PkgB, Name |-> <<"c">>, Recv |-> Empty]

\* CallStack: entry point first, vulnerable symbol last.
CallStacks ==
    { <<FnF>>, <<FnMain, FnF>>, <<FnCaller, FnF>>, <<FnMain, FnRG>> }

(***************************************************************************)
(* Frames and findings as the emitters build them.  A frame keeps the      *)
(* fields the handler reads: module, package, function and receiver.       *)
(* Versions, positions, module replacements and the package that           *)
(* frameFromModule adds for the standard library are left out.             *)
(***************************************************************************)
frameFromPackage(pkg) ==
    [Module |-> pkg.Module.Path, Package |-> pkg.PkgPath,
     Function |-> Empty, Receiver |-> Empty]

frameFromModule(mod) ==
    [Module |-> mod.Path, Package |-> Empty,
     Function |-> Empty, Receiver |-> Empty]

\* The frame of one stack entry: package frame plus function and receiver.
frameFromEntry(e) ==
    [frameFromPackage(e.Package) EXCEPT !.Function = e.Name, !.Receiver = e.Recv]

\* tracefromEntries: the frames of vcs from its last entry to its first.
tracefromEntries(vcs) ==
    [i \in 1..Len(vcs) |-> frameFromEntry(vcs[Len(vcs) + 1 - i])]

V1 == <<"V", "1">>
V2 == <<"V", "2">>
V3 == <<"V", "3">>
IDs == {V1, V2, V3}

\* emitModuleFindings: one single-frame finding per module and OSV.
ModuleFindings(id) ==
    { [OSV |-> id, Trace |-> <<frameFromModule(m)>>] : m \in Modules }

\* emitPackageFinding: one single-frame finding for the import sink.
PackageFindings(id) ==
    { [OSV |-> id, Trace |-> <<frameFromPackage(p)>>] : p \in Packages }

\* emitCalledVulns, emitBinaryResult: the trace of a call stack.
CalledFindings(id) ==
    { [OSV |-> id, Trace |-> tracefromEntries(cs)] : cs \in CallStacks }

\* The findings submitted to the handler.  V1 draws from all of them, the
\* other identifiers from one finding per level.
Findings ==
    ModuleFindings(V1) \cup PackageFindings(V1) \cup CalledFindings(V1)
    \cup { [OSV |-> V2, Trace |-> <<frameFromModule(ModM)>>],
           [OSV |-> V3, Trace |-> <<frameFromPackage(PkgA)>>] }

(***************************************************************************)
(* OSV entries and configurations.                                         *)
(***************************************************************************)
Sum1 == <<"s">>
Det1 == <<"t">>
Det2 == <<"u">>
Entries ==
    { [ID |-> V1, Summary |-> Sum1, Details |-> Det1, Aliases |-> << <<"A">> >>],
      [ID |-> V1, Summary |-> Empty, Details |-> Det2, Aliases |-> Empty],
      [ID |-> V2, Summary |-> Sum1, Details |-> Det1, Aliases |-> Empty],
      [ID |-> V3, Summary |-> Empty, Details |-> Det1, Aliases |-> Empty] }

ScanLevels == {"symbol", "package", "module"}
Configs == { [ScanLevel |-> l] : l \in ScanLevels }
NilCfg == [ScanLevel |-> "nil"]

\* ScanLevel.WantSymbols and ScanLevel.WantPackages.
WantSymbols(l) == l = "symbol"
WantPackages(l) == l \in {"symbol", "package"}

(***************************************************************************)
(* The handler.                                                            *)
(***************************************************************************)
VARIABLES
    cfg,        \* h.cfg, NilCfg until Config is called
    osvs,       \* h.osvs: OSV id -> entry
    findings,   \* h.findings: OSV id -> sequence of findings
    nfind,      \* history: the number of calls of Finding so far
    last,       \* history: the last call of Finding: its argument and the
                \* group of its OSV before the call
    out,        \* history: the outcome of Flush, if Flush was the last call
    sent,       \* two runs: the submissions of the first run, in order
    used,       \* two runs: the indices of sent the second run has received
    osvs2,      \* two runs: h.osvs of the second handler
    findings2,  \* two runs: h.findings of the second handler
    out2,       \* two runs: the outcome of the second handler's Flush
    vulns,      \* emitBinaryResult: vr.Vulns
    callstacks, \* emitBinaryResult: the call stack of each vulnerability
    pc,         \* emitBinaryResult: the loop being run
    vi,         \* emitBinaryResult: the position of the loop in vr.Vulns
    emitted,    \* emitBinaryResult: the OSV ids marked as emitted
    calls       \* history: the findings sent to handler.Finding, in order

hvars == <<cfg, osvs, findings, nfind, last, out>>
pvars == <<sent, used, osvs2, findings2, out2>>
bvars == <<vulns, callstacks, pc, vi, emitted, calls>>
vars == <<cfg, osvs, findings, nfind, last, out,
          sent, used, osvs2, findings2, out2,
          vulns, callstacks, pc, vi, emitted, calls>>

\* The sink frame of a finding and its precision tier.
Sink(f) == f.Trace[1]
Tier(f) ==
    IF Sink(f).Function # Empty THEN 3
    ELSE IF Sink(f).Package # Empty THEN 2
    ELSE 1

\* Variants of moreSpecific with one result changed: a module finding compared
\* with a package finding gives 0; a package finding compared with a module
\* finding gives 1; two call stack findings give -1.
moreSpecific_PkgAbsentEqual(f1, f2) ==
    IF Len(f1.Trace) > 1 /\ Len(f2.Trace) > 1 THEN 0
    ELSE IF Len(f1.Trace) > 1 THEN -1
    ELSE IF Len(f2.Trace) > 1 THEN 1
    ELSE LET fr1 == f1.Trace[1]
             fr2 == f2.Trace[1]
         IN  IF fr1.Function # Empty /\ fr2.Function = Empty THEN -1
             ELSE IF fr1.Function = Empty /\ fr2.Function # Empty THEN 1
             ELSE IF fr1.Package # Empty /\ fr2.Package = Empty THEN -1
             ELSE IF fr1.Package = Empty /\ fr2.Package # Empty THEN 0
             ELSE 0

moreSpecific_PkgPresentLess(f1, f2) ==
    IF Len(f1.Trace) > 1 /\ Len(f2.Trace) > 1 THEN 0
    ELSE IF Len(f1.Trace) > 1 THEN -1
    ELSE IF Len(f2.Trace) > 1 THEN 1
    ELSE LET fr1 == f1.Trace[1]
             fr2 == f2.Trace[1]
         IN  IF fr1.Function # Empty /\ fr2.Function = Empty THEN -1
             ELSE IF fr1.Function = Empty /\ fr2.Function # Empty THEN 1
             ELSE IF fr1.Package # Empty /\ fr2.Package = Empty THEN 1
             ELSE IF fr1.Package = Empty /\ fr2.Package # Empty THEN -1
             ELSE 0

moreSpecific_CallStacksReplace(f1, f2) ==
    IF Len(f1.Trace) > 1 /\ Len(f2.Trace) > 1 THEN -1
    ELSE IF Len(f1.Trace) > 1 THEN -1
    ELSE IF Len(f2.Trace) > 1 THEN 1
    ELSE LET fr1 == f1.Trace[1]
             fr2 == f2.Trace[1]
         IN  IF fr1.Function # Empty /\ fr2.Function = Empty THEN -1
             ELSE IF fr1.Function = Empty /\ fr2.Function # Empty THEN 1
             ELSE IF fr1.Package # Empty /\ fr2.Package = Empty THEN -1
             ELSE IF fr1.Package = Empty /\ fr2.Package # Empty THEN -1
             ELSE 0

\* moreSpecific(f1, f2): -1 if f1 is taken as more specific, 1 if less, 0 if
\* at the same level.
moreSpecific(f1, f2) ==
    IF Len(f1.Trace) > 1 /\ Len(f2.Trace) > 1 THEN 0
    ELSE IF Len(f1.Trace) > 1 THEN -1
    ELSE IF Len(f2.Trace) > 1 THEN 1
    ELSE LET fr1 == f1.Trace[1]
             fr2 == f2.Trace[1]
         IN  IF fr1.Function # Empty /\ fr2.Function = Empty THEN -1
             ELSE IF fr1.Function = Empty /\ fr2.Function # Empty THEN 1
             ELSE IF fr1.Package # Empty /\ fr2.Package = Empty THEN -1
             ELSE IF fr1.Package = Empty /\ fr2.Package # Empty THEN -1
             ELSE 0

\* h.findings[id]: nil (the empty sequence) for a missing key.
Group(fm, id) == IF id \in DOMAIN fm THEN fm[id] ELSE << >>

\* A variant of handler.Finding that stores the group in a fresh map.
FindingOp_FreshMap(fm, f) ==
    LET fs == Group(fm, f.OSV)
        ms == moreSpecific(f, fs[1])
        new == IF Len(fs) = 0 THEN <<f>>
               ELSE IF ms = -1 THEN <<f>>
               ELSE IF ms = 0 THEN Append(fs, f)
               ELSE fs
    IN  [id \in {f.OSV} |-> new]

\* A variant of handler.Finding that erases the group of a less specific
\* finding without adding the new one.
FindingOp_EraseOnly(fm, f) ==
    LET fs == Group(fm, f.OSV)
        ms == moreSpecific(f, fs[1])
        new == IF Len(fs) = 0 THEN <<f>>
               ELSE IF ms = -1 THEN << >>
               ELSE IF ms = 0 THEN Append(fs, f)
               ELSE fs
    IN  [id \in DOMAIN fm \cup {f.OSV} |-> IF id = f.OSV THEN new ELSE fm[id]]

\* The body of handler.Finding on the map fm: the map afterwards.
FindingOp(fm, f) ==
    LET fs == Group(fm, f.OSV)
        ms == moreSpecific(f, fs[1])
        new == IF Len(fs) = 0 THEN <<f>>
               ELSE IF ms = -1 THEN <<f>>
               ELSE IF ms = 0 THEN Append(fs, f)
               ELSE fs
    IN  [id \in DOMAIN fm \cup {f.OSV} |-> IF id = f.OSV THEN new ELSE fm[id]]

\* A variant of handler.OSV that keeps the entry an identifier already has.
OSVOp_FirstWins(om, e) ==
    [id \in DOMAIN om \cup {e.ID} |-> IF id \in DOMAIN om THEN om[id] ELSE e]

\* The body of handler.OSV on the map om.
OSVOp(om, e) ==
    [id \in DOMAIN om \cup {e.ID} |-> IF id = e.ID THEN e ELSE om[id]]

(***************************************************************************)
(* Building the sarif log.                                                 *)
(***************************************************************************)
\* The sequence s with every element evaluated.
Tuple(s) ==
    LET m[k \in 0..Len(s)] ==
            IF k = 0 THEN << >> ELSE Append(m[k - 1], s[k])
    IN  m[Len(s)]

\* sort.SliceStable with a less function that compares the strings key[i]
\* with <: the elements of s in ascending order of their keys, elements with
\* equal keys in their order in s.  Computed as a stable insertion sort: the
\* k-th element goes before the first element its key is less than.
SortStable(s, key) ==
    LET n == Len(s)
        ks == Tuple(key)
        vs == Tuple(s)
        order[k \in 0..n] ==
            IF k = 0 THEN << >>
            ELSE LET t == order[k - 1]
                     after == { j \in 1..Len(t) : StrLess(ks[k], ks[t[j]]) }
                     p == IF after = {} THEN Len(t)
                          ELSE (CHOOSE j \in after : \A i \in after : j <= i) - 1
                 IN  SubSeq(t, 1, p) \o <<k>> \o SubSeq(t, p + 1, Len(t))
        o == order[n]
    IN  [i \in 1..n |-> vs[o[i]]]

\* The orders in which a range over a Go map may visit the keys.
KeyOrders(m) ==
    { o \in [1..Cardinality(DOMAIN m) -> DOMAIN m] :
        \A i, j \in DOMAIN o : i # j => o[i] # o[j] }

\* fmt's %d of a natural number.
Digits == <<"0", "1", "2", "3", "4", "5", "6", "7", "8", "9">>

RECURSIVE Itoa(_)
Itoa(n) == IF n < 10 THEN <<Digits[n + 1]>>
           ELSE Itoa(n \div 10) \o <<Digits[(n % 10) + 1]>>

\* choose(s1, s2, cond) and list(elems) of the sarif package.
choose(s1, s2, cond) == IF cond THEN s1 ELSE s2

RECURSIVE list(_)
list(elems) ==
    IF Len(elems) = 0 THEN Empty
    ELSE IF Len(elems) = 1 THEN elems[1]
    ELSE elems[1] \o <<",", " ">> \o list(Tail(elems))

\* The rule of one OSV entry.
RuleOf(osv) ==
    LET s == IF osv.Summary = Empty THEN osv.Details ELSE osv.Summary
    IN  [ID |-> osv.ID,
         ShortDescription |-> <<"[">> \o osv.ID \o <<"]", " ">> \o s,
         FullDescription |-> s,
         HelpURI |-> <<"https://pkg.go.dev/vuln/">> \o osv.ID,
         Help |-> osv.Details,
         Tags |-> osv.Aliases]

\* A variant of rules without the final sort.
rules_Unsorted(om, fm, ko) ==
    Tuple([i \in 1..Len(ko) |-> RuleOf(om[ko[i]])])

\* rules(h), the range over h.findings visiting the keys in the order ko.
rules(om, fm, ko) ==
    LET rs == Tuple([i \in 1..Len(ko) |-> RuleOf(om[ko[i]])])
    IN  SortStable(rs, [i \in 1..Len(rs) |-> rs[i].ID])

\* A variant of level that, for a packages scan, gives a finding with a
\* package the level of one without.
level_PackagesWarning(f, c) ==
    LET fr == f.Trace[1]
    IN  IF WantSymbols(c.ScanLevel)
        THEN IF fr.Function # Empty THEN "error"
             ELSE IF fr.Package # Empty THEN "warning"
             ELSE "note"
        ELSE IF WantPackages(c.ScanLevel)
        THEN "warning"
        ELSE "error"

\* level(f, cfg)
level(f, c) ==
    LET fr == f.Trace[1]
    IN  IF WantSymbols(c.ScanLevel)
        THEN IF fr.Function # Empty THEN "error"
             ELSE IF fr.Package # Empty THEN "warning"
             ELSE "note"
        ELSE IF WantPackages(c.ScanLevel)
        THEN IF fr.Package # Empty THEN "error" ELSE "warning"
        ELSE "error"

\* "A call stack for vulnerable function "
StackPrefix ==
    << "A", " ", "c", "a", "l", "l", " ", "s", "t", "a", "c", "k", " ",
       "f", "o", "r", " ", "v", "u", "l", "n", "e", "r", "a", "b", "l", "e", " ",
       "f", "u", "n", "c", "t", "i", "o", "n", " " >>

\* A variant of stack that keeps the frames in the order of the trace.
stack_TraceOrder(f) ==
    LET trace == f.Trace
        n == Len(trace)
        vuln == trace[1]
        vulnSym == vuln.Package \o <<".">>
                   \o (IF vuln.Receiver # Empty
                       THEN vuln.Receiver \o <<".">> ELSE Empty)
                   \o vuln.Function
    IN  [Frames |-> [i \in 1..n |-> [Module |-> trace[i].Module]],
         Message |-> StackPrefix \o vulnSym]

\* stack(f): the frames of the trace from its last to its first, and the
\* message naming the vulnerable symbol trace[0].
stack(f) ==
    LET trace == f.Trace
        n == Len(trace)
        vuln == trace[1]
        vulnSym == vuln.Package \o <<".">>
                   \o (IF vuln.Receiver # Empty
                       THEN vuln.Receiver \o <<".">> ELSE Empty)
                   \o vuln.Function
    IN  [Frames |-> [i \in 1..n |-> [Module |-> trace[n + 1 - i].Module]],
         Message |-> StackPrefix \o vulnSym]

\* A variant of stacks without the final sort.
stacks_Unsorted(fs) ==
    IF fs[1].Trace[1].Function = Empty THEN << >>
    ELSE Tuple([i \in 1..Len(fs) |-> stack(fs[i])])

\* stacks(fs)
stacks(fs) ==
    IF fs[1].Trace[1].Function = Empty THEN << >>
    ELSE LET ss == Tuple([i \in 1..Len(fs) |-> stack(fs[i])])
         IN  SortStable(ss, [i \in 1..Len(ss) |-> ss[i].Message])

\* A variant of SortStrings that sorts in descending order.
SortStrings_Descending(set) ==
    CHOOSE s \in [1..Cardinality(set) -> set] :
        \A i, j \in DOMAIN s : i < j => StrLess(s[j], s[i])

\* sort.Strings of the keys of a set of strings.
SortStrings(set) ==
    CHOOSE s \in [1..Cardinality(set) -> set] :
        \A i, j \in DOMAIN s : i < j => StrLess(s[i], s[j])

\* The characters U+2019 (right single quotation mark) and U+0027
\* (apostrophe) of a Go string.  The texts holding one of them are cut at the
\* same places, so that two of them differ only where their characters do.
RightQuote == "U+2019"
Apostrophe == "'"

\* const runCallAnalysis
RunCallAnalysis ==
    "Run the call-level analysis to understand whether your code actually calls the vulnerabilities."

\* A variant of resultMessage that writes the plural whenever the group has
\* more than one finding, whatever the number of elements.
resultMessage_PluralByFindings(fs, c) ==
    LET frame == fs[1].Trace[1]
        uniqueElems ==
            IF frame.Function = Empty /\ frame.Package = Empty
            THEN { fs[i].Trace[1].Module : i \in 1..Len(fs) }
            ELSE { fs[i].Trace[1].Package : i \in 1..Len(fs) }
        elems == SortStrings(uniqueElems)
        l == Len(elems)
        elemList == list(elems)
        runCallAnalysis == <<RunCallAnalysis>>
        plural == choose(Empty, <<"s">>, Len(fs) = 1)
        main ==
            IF frame.Function # Empty
            THEN <<"calls vulnerable functions in ">> \o Itoa(l) \o <<" package">> \o plural
                 \o <<" (">> \o elemList \o <<").">>
            ELSE IF frame.Package # Empty
            THEN <<"imports ">> \o Itoa(l) \o <<" vulnerable package">> \o plural
                 \o <<" (">> \o elemList \o <<")">>
            ELSE <<"depends on ">> \o Itoa(l) \o <<" vulnerable module">> \o plural
                 \o <<" (">> \o elemList \o <<")">>
        informational ==
            <<", but doesn", Apostrophe, "t appear to ">>
            \o choose(<<"call">>, <<"import">>, WantSymbols(c.ScanLevel))
            \o <<" any of the vulnerable symbols.">>
        addition ==
            IF frame.Function # Empty THEN Empty
            ELSE IF frame.Package # Empty
            THEN choose(<<", but doesn", RightQuote, "t appear to ", "call",
                          " any of the vulnerable symbols.">>,
                        <<". ">> \o runCallAnalysis, WantSymbols(c.ScanLevel))
            ELSE choose(informational, <<". ">> \o runCallAnalysis,
                        WantPackages(c.ScanLevel))
    IN  <<"Your code ">> \o main \o addition

\* resultMessage(findings, cfg)
resultMessage(fs, c) ==
    LET frame == fs[1].Trace[1]
        uniqueElems ==
            IF frame.Function = Empty /\ frame.Package = Empty
            THEN { fs[i].Trace[1].Module : i \in 1..Len(fs) }
            ELSE { fs[i].Trace[1].Package : i \in 1..Len(fs) }
        elems == SortStrings(uniqueElems)
        l == Len(elems)
        elemList == list(elems)
        runCallAnalysis == <<RunCallAnalysis>>
        plural == choose(Empty, <<"s">>, l = 1)
        main ==
            IF frame.Function # Empty
            THEN <<"calls vulnerable functions in ">> \o Itoa(l) \o <<" package">> \o plural
                 \o <<" (">> \o elemList \o <<").">>
            ELSE IF frame.Package # Empty
            THEN <<"imports ">> \o Itoa(l) \o <<" vulnerable package">> \o plural
                 \o <<" (">> \o elemList \o <<")">>
            ELSE <<"depends on ">> \o Itoa(l) \o <<" vulnerable module">> \o plural
                 \o <<" (">> \o elemList \o <<")">>
        informational ==
            <<", but doesn", Apostrophe, "t appear to ">>
            \o choose(<<"call">>, <<"import">>, WantSymbols(c.ScanLevel))
            \o <<" any of the vulnerable symbols.">>
        addition ==
            IF frame.Function # Empty THEN Empty
            ELSE IF frame.Package # Empty
            THEN choose(<<", but doesn", RightQuote, "t appear to ", "call",
                          " any of the vulnerable symbols.">>,
                        <<". ">> \o runCallAnalysis, WantSymbols(c.ScanLevel))
            ELSE choose(informational, <<". ">> \o runCallAnalysis,
                        WantPackages(c.ScanLevel))
    IN  <<"Your code ">> \o main \o addition

\* results(h), the range over h.findings visiting the keys in the order ko.
results(fm, c, ko) ==
    LET res(fs) == [RuleID |-> fs[1].OSV,
                    Level |-> level(fs[1], c),
                    Message |-> resultMessage(fs, c),
                    Stacks |-> stacks(fs)]
        rs == Tuple([i \in 1..Len(ko) |-> res(fm[ko[i]])])
    IN  SortStable(rs, [i \in 1..Len(rs) |-> rs[i].RuleID])

\* toSarif(h): the log, the two ranges over h.findings visiting the keys in
\* the orders ko1 and ko2.
toSarif(c, om, fm, ko1, ko2) ==
    [Version |-> "2.1.0",
     Properties |-> c,
     Rules |-> rules(om, fm, ko1),
     Results |-> results(fm, c, ko2)]

\* toSarif dereferences h.cfg and the entry h.osvs[id] of every key of
\* h.findings: a nil one is a nil pointer dereference, and Flush panics.
Panics(c, om, fm) == c = NilCfg \/ ~(DOMAIN fm \subseteq DOMAIN om)

\* The body of handler.Flush.  json.MarshalIndent does not fail on a Log; the
\* writer may: werr is the error h.w.Write returns.  Flush drops it and
\* returns nil.
WriteErrors == {"nil", "write failed"}

\* A variant of Flush whose ranges skip the keys of h.findings that have no
\* entry in h.osvs.
FlushOp_SkipUndefined(c, om, fm, ko1, ko2, werr) ==
    LET defined(id) == id \in DOMAIN om
        fmd == [id \in DOMAIN fm \cap DOMAIN om |-> fm[id]]
    IN  IF c = NilCfg
        THEN [op |-> "Flush", outcome |-> "panic"]
        ELSE [op |-> "Flush", outcome |-> "return", err |-> "nil",
              s |-> toSarif(c, om, fmd, SelectSeq(ko1, defined),
                            SelectSeq(ko2, defined)),
              werr |-> werr]

FlushOp(c, om, fm, ko1, ko2, werr) ==
    IF Panics(c, om, fm)
    THEN [op |-> "Flush", outcome |-> "panic"]
    ELSE [op |-> "Flush", outcome |-> "return", err |-> "nil",
          s |-> toSarif(c, om, fm, ko1, ko2), werr |-> werr]

(***************************************************************************)
(* One handler: NewHandler, then Config, OSV and Finding in any order, and  *)
(* Flush as the last call of the run.  Flush changes no field of the       *)
(* handler, so what could follow it is what could happen without it.       *)
(***************************************************************************)
NoFlush == [op |-> "none"]

Init ==
    /\ cfg = NilCfg
    /\ osvs = << >>
    /\ findings = << >>
    /\ nfind = 0
    /\ last = [op |-> "NewHandler"]
    /\ out = NoFlush
    /\ sent = << >>
    /\ used = {}
    /\ osvs2 = << >>
    /\ findings2 = << >>
    /\ out2 = NoFlush
    /\ vulns = << >>
    /\ callstacks = << >>
    /\ pc = "idle"
    /\ vi = 0
    /\ emitted = {}
    /\ calls = << >>

ConfigStep(c) ==
    /\ out = NoFlush
    /\ cfg' = c
    /\ out' = NoFlush
    /\ UNCHANGED <<osvs, findings, nfind, last>>

OSVStep(e) ==
    /\ out = NoFlush
    /\ osvs' = OSVOp(osvs, e)
    /\ out' = NoFlush
    /\ UNCHANGED <<cfg, findings, nfind, last>>

FindingStep(f) ==
    /\ out = NoFlush
    /\ nfind < MaxFindings
    /\ findings' = FindingOp(findings, f)
    /\ nfind' = nfind + 1
    /\ last' = [op |-> "Finding", f |-> f, before |-> Group(findings, f.OSV)]
    /\ out' = NoFlush
    /\ UNCHANGED <<cfg, osvs>>

FlushStep(ko1, ko2, werr) ==
    /\ out = NoFlush
    /\ out' = FlushOp(cfg, osvs, findings, ko1, ko2, werr)
    /\ UNCHANGED <<cfg, osvs, findings, nfind, last>>

Config(c) == ConfigStep(c) /\ UNCHANGED <<pvars, bvars>>
OSV(e) == OSVStep(e) /\ UNCHANGED <<pvars, bvars>>
Finding(f) == FindingStep(f) /\ UNCHANGED <<pvars, bvars>>
Flush(ko1, ko2, werr) == FlushStep(ko1, ko2, werr) /\ UNCHANGED <<pvars, bvars>>

Next ==
    \/ \E c \in Configs : Config(c)
    \/ \E e \in Entries : OSV(e)
    \/ \E f \in Findings : Finding(f)
    \/ \E ko1, ko2 \in KeyOrders(findings), werr \in WriteErrors :
            Flush(ko1, ko2, werr)

Spec == Init /\ [][Next]_vars

(***************************************************************************)
(* Two runs.  The first handler receives OSV entries and findings, which   *)
(* sent records in order; the second handler, with the same configuration, *)
(* receives the submissions of sent one by one in any order.               *)
(***************************************************************************)
PairEntries == { e \in Entries : e.Summary # Empty }

PairFindings ==
    { [OSV |-> V1, Trace |-> <<frameFromModule(ModM)>>],
      [OSV |-> V1, Trace |-> <<frameFromPackage(PkgA)>>],
      [OSV |-> V1, Trace |-> tracefromEntries(<<FnMain, FnF>>)],
      [OSV |-> V1, Trace |-> tracefromEntries(<<FnMain, FnRG>>)],
      [OSV |-> V2, Trace |-> <<frameFromModule(ModM)>>] }

PairConfig(c) ==
    /\ out2 = NoFlush
    /\ ConfigStep(c)
    /\ UNCHANGED <<pvars, bvars>>

PairOSV(e) ==
    /\ Len(sent) < MaxSubs
    /\ OSVStep(e)
    /\ sent' = Append(sent, [kind |-> "OSV", arg |-> e])
    /\ UNCHANGED <<used, osvs2, findings2, out2>>
    /\ UNCHANGED bvars

PairFinding(f) ==
    /\ Len(sent) < MaxSubs
    /\ FindingStep(f)
    /\ sent' = Append(sent, [kind |-> "Finding", arg |-> f])
    /\ UNCHANGED <<used, osvs2, findings2, out2>>
    /\ UNCHANGED bvars

\* The second handler receives the i-th submission of the first run.
Replay(i) ==
    /\ out2 = NoFlush
    /\ i \notin used
    /\ used' = used \cup {i}
    /\ IF sent[i].kind = "OSV"
       THEN osvs2' = OSVOp(osvs2, sent[i].arg) /\ findings2' = findings2
       ELSE findings2' = FindingOp(findings2, sent[i].arg) /\ osvs2' = osvs2
    /\ UNCHANGED <<cfg, osvs, findings, nfind, last, out, sent, out2>>
    /\ UNCHANGED bvars

Flush2(ko1, ko2, werr) ==
    /\ out2 = NoFlush
    /\ out2' = FlushOp(cfg, osvs2, findings2, ko1, ko2, werr)
    /\ UNCHANGED <<cfg, osvs, findings, nfind, last, out,
                   sent, used, osvs2, findings2>>
    /\ UNCHANGED bvars

NextPair ==
    \/ \E c \in Configs : PairConfig(c)
    \/ \E e \in PairEntries : PairOSV(e)
    \/ \E f \in PairFindings : PairFinding(f)
    \/ \E i \in 1..Len(sent) : Replay(i)
    \/ \E ko1, ko2 \in KeyOrders(findings), werr \in WriteErrors :
            Flush(ko1, ko2, werr)
    \/ \E ko1, ko2 \in KeyOrders(findings2), werr \in WriteErrors :
            Flush2(ko1, ko2, werr)

SpecPair == Init /\ [][NextPair]_vars

(***************************************************************************)
(* One handler with the log of its submissions: the calls of OSV and       *)
(* Finding are recorded in sent, in order; there is no second run.         *)
(***************************************************************************)
NextLog ==
    \/ \E c \in Configs : PairConfig(c)
    \/ \E e \in Entries : PairOSV(e)
    \/ \E f \in PairFindings : PairFinding(f)
    \/ \E ko1, ko2 \in KeyOrders(findings), werr \in WriteErrors :
            Flush(ko1, ko2, werr)

SpecLog == Init /\ [][NextLog]_vars

(***************************************************************************)
(* Properties of the handler.                                              *)
(***************************************************************************)
Range(s) == { s[i] : i \in 1..Len(s) }
MaxOf(S) == CHOOSE x \in S : \A y \in S : y <= x

\* The last call was Finding(f) on a non-empty group.
ComparedCall == last.op = "Finding" /\ last.before # << >>
Returned(o) == o.op = "Flush" /\ o.outcome = "return"

\* C1: after any sequence of Finding submissions, the group of every
\* identifier consists of exactly the submitted findings whose sink-frame tier
\* is the highest tier among all findings submitted for that identifier.
C1_OnlyMostPreciseSurvive ==
    \A id \in IDs :
        LET subs == { sent[i].arg : i \in { j \in 1..Len(sent) :
                        sent[j].kind = "Finding" /\ sent[j].arg.OSV = id } }
            top == MaxOf({ Tier(f) : f \in subs })
        IN  subs # {} =>
                /\ id \in DOMAIN findings
                /\ Range(findings[id]) = { f \in subs : Tier(f) = top }

\* C2 (invariant I1): all findings retained for one identifier have the same
\* sink-frame precision tier.
C2_GroupsHomogeneous ==
    \A id \in DOMAIN findings :
        \A i, j \in 1..Len(findings[id]) :
            Tier(findings[id][i]) = Tier(findings[id][j])

\* C2 witness: a finding of another tier was submitted to a group of two.
C2_Witness ==
    /\ ComparedCall
    /\ Len(last.before) >= 2
    /\ Tier(last.f) # Tier(last.before[1])

\* C3: submitting a finding of a lower tier than the existing non-empty group
\* of its identifier leaves the group as it was.
C3_LessSpecificDiscarded ==
    (ComparedCall /\ Tier(last.f) < Tier(last.before[1]))
        => findings[last.f.OSV] = last.before

\* C4: submitting a finding of a higher tier than the existing group of its
\* identifier leaves the singleton group of the new finding.
C4_MoreSpecificReplaces ==
    (ComparedCall /\ Tier(last.f) > Tier(last.before[1]))
        => findings[last.f.OSV] = <<last.f>>

\* C4 witness: a finding of a higher tier replaced a group of two.
C4_Witness ==
    /\ ComparedCall
    /\ Tier(last.f) > Tier(last.before[1])
    /\ Len(last.before) >= 2
    /\ findings[last.f.OSV] = <<last.f>>

\* C5: two runs with the same configuration that received the same
\* submissions in different orders produce the same output at Flush.
C5_Determinism ==
    (out.op = "Flush" /\ out2.op = "Flush" /\ used = 1..Len(sent))
        => /\ out.outcome = out2.outcome
           /\ out.outcome = "return" => out.s = out2.s

\* C6 as claimed: two findings whose sink frames both carry a function name
\* compare as equal whatever the lengths of their traces, and the new finding
\* is appended to the group.
C6_FunctionFindingsAlwaysEqual ==
    (/\ ComparedCall
     /\ Sink(last.f).Function # Empty
     /\ Sink(last.before[1]).Function # Empty)
        => /\ moreSpecific(last.f, last.before[1]) = 0
           /\ findings[last.f.OSV] = Append(last.before, last.f)

\* Both traces are call stacks of more than one frame, or both are single
\* frames that agree on carrying a package.
SameKind(f1, f2) ==
    \/ Len(f1.Trace) > 1 /\ Len(f2.Trace) > 1
    \/ /\ Len(f1.Trace) = 1 /\ Len(f2.Trace) = 1
       /\ (Sink(f1).Package = Empty) = (Sink(f2).Package = Empty)

\* C6 amended: two findings whose sink frames both carry a function name
\* compare as equal when both traces have more than one frame or both have
\* exactly one frame (and agree on carrying a package); the new finding is
\* then appended to the group.
C6_SameKindFunctionFindingsEqual ==
    (/\ ComparedCall
     /\ Sink(last.f).Function # Empty
     /\ Sink(last.before[1]).Function # Empty
     /\ SameKind(last.f, last.before[1]))
        => /\ moreSpecific(last.f, last.before[1]) = 0
           /\ findings[last.f.OSV] = Append(last.before, last.f)

\* C6 witness: a call stack finding was appended to a group of two call stack
\* findings with another trace.
C6_Witness ==
    /\ ComparedCall
    /\ Sink(last.f).Function # Empty
    /\ Len(last.f.Trace) > 1
    /\ Len(last.before) = 2
    /\ Len(last.before[1].Trace) > 1
    /\ last.before[1].Trace # last.f.Trace
    /\ Len(findings[last.f.OSV]) = 3

\* C7: the comparison is antisymmetric: moreSpecific(a, b) is the negation of
\* moreSpecific(b, a), for the pairs the handler compares.
C7_Antisymmetric ==
    ComparedCall =>
        moreSpecific(last.f, last.before[1]) = -moreSpecific(last.before[1], last.f)

\* The severity table: scan depth and sink-frame tier (1 module, 2 package,
\* 3 function) to level; error is high, warning medium, note informational.
LevelTable ==
    [symbol |-> <<"note", "warning", "error">>,
     package |-> <<"warning", "error", "error">>,
     module |-> <<"error", "error", "error">>]

\* C8: the level of every result is the entry of the severity table for the
\* scan depth and the tier of the group's sink frame.
C8_SeverityTable ==
    Returned(out) =>
        \A i \in 1..Len(out.s.Results) :
            LET r == out.s.Results[i]
            IN  r.Level = LevelTable[cfg.ScanLevel][Tier(findings[r.RuleID][1])]

\* C8 witness: a symbol scan flushed a module-level and a package-level group.
C8_Witness ==
    /\ Returned(out)
    /\ cfg.ScanLevel = "symbol"
    /\ \E i, j \in 1..Len(out.s.Results) :
            /\ out.s.Results[i].Level = "note"
            /\ out.s.Results[j].Level = "warning"

\* C9: when the write of the output fails during Flush, Flush returns that
\* error.
C9_FlushReturnsWriteError ==
    (Returned(out) /\ out.werr # "nil") => out.err = out.werr

StrictlyAscending(ids) ==
    \A i \in 1..Len(ids) - 1 : StrLess(ids[i], ids[i + 1])

\* C10: at Flush the rules and the results each hold exactly one entry per
\* identifier with a retained group, in strictly ascending order of
\* identifier.
C10_OneSortedEntryPerGroup ==
    Returned(out) =>
        LET ruleIDs == [i \in 1..Len(out.s.Rules) |-> out.s.Rules[i].ID]
            resIDs == [i \in 1..Len(out.s.Results) |-> out.s.Results[i].RuleID]
        IN  /\ Range(ruleIDs) = DOMAIN findings
            /\ Range(resIDs) = DOMAIN findings
            /\ StrictlyAscending(ruleIDs)
            /\ StrictlyAscending(resIDs)

\* C10 witness: a flush with two groups, all three identifiers defined, so
\* that one identifier has a definition and no finding.
C10_Witness ==
    /\ Returned(out)
    /\ Len(out.s.Rules) = 2
    /\ Len(out.s.Results) = 2
    /\ DOMAIN osvs = IDs

(***************************************************************************)
(* Properties of the result messages.                                      *)
(***************************************************************************)
EndsWith(s, suf) ==
    /\ Len(s) >= Len(suf)
    /\ SubSeq(s, Len(s) - Len(suf) + 1, Len(s)) = suf

\* ", but doesn't appear to <verb> any of the vulnerable symbols.", written
\* with the apostrophe U+0027, and the suggestion to run the call-level
\* analysis.
AppearClause(verb) ==
    <<", but doesn", Apostrophe, "t appear to ", verb,
      " any of the vulnerable symbols.">>
Suggestion == <<". ", RunCallAnalysis>>

\* The qualifier a message ends with, by tier of the group (2 package,
\* 1 module) and scan depth.
QualifierTable ==
    [symbol |-> <<AppearClause("call"), AppearClause("call")>>,
     package |-> <<AppearClause("import"), Suggestion>>,
     module |-> <<Suggestion, Suggestion>>]

\* The message of a function-tier group ends with its list of packages.
NoQualifier(msg) ==
    /\ EndsWith(msg, <<").">>)
    /\ \A i \in 1..Len(msg) :
          msg[i] \notin {" any of the vulnerable symbols.", RunCallAnalysis}

\* C11: the message of a package-tier group ends with ", but doesn't appear
\* to call any of the vulnerable symbols." at symbol depth and with the
\* call-level-analysis suggestion otherwise; that of a module-tier group with
\* the "call" clause at symbol depth, the "import" clause at package depth and
\* the suggestion at module depth; a function-tier group gets no qualifier;
\* a module-tier group at symbol depth has level note.
C11_MessageQualifier ==
    Returned(out) =>
        \A i \in 1..Len(out.s.Results) :
            LET r == out.s.Results[i]
                t == Tier(findings[r.RuleID][1])
            IN  /\ t = 3 => NoQualifier(r.Message)
                /\ t < 3 => EndsWith(r.Message, QualifierTable[cfg.ScanLevel][t])
                /\ (t = 1 /\ cfg.ScanLevel = "symbol") => r.Level = "note"

\* The nouns of the three messages, and the distinct identifying units of a
\* group: the sink packages, or the sink modules of a module-tier group.
Nouns == {" package", " vulnerable package", " vulnerable module"}
NounIndex(msg) == CHOOSE i \in 1..Len(msg) : msg[i] \in Nouns
Units(fs) ==
    IF Tier(fs[1]) = 1 THEN { Sink(fs[i]).Module : i \in 1..Len(fs) }
    ELSE { Sink(fs[i]).Package : i \in 1..Len(fs) }

\* C12: in every message the noun is followed directly by " (" when the group
\* has exactly one distinct unit, and by "s" and then " (" when it has two or
\* more, for all three tiers.
C12_Pluralization ==
    Returned(out) =>
        \A i \in 1..Len(out.s.Results) :
            LET r == out.s.Results[i]
                n == Cardinality(Units(findings[r.RuleID]))
                k == NounIndex(r.Message)
            IN  /\ \E j \in 1..Len(r.Message) : r.Message[j] \in Nouns
                /\ n = 1 => r.Message[k + 1] = " ("
                /\ n >= 2 => r.Message[k + 1] = "s" /\ r.Message[k + 2] = " ("

\* C12 witness: one flush wrote a singular message for a group of one unit
\* and a plural message for a group of two.
C12_Witness ==
    /\ Returned(out)
    /\ \E i, j \in 1..Len(out.s.Results) :
          LET ri == out.s.Results[i]
              rj == out.s.Results[j]
          IN  /\ Cardinality(Units(findings[ri.RuleID])) = 1
              /\ ri.Message[NounIndex(ri.Message) + 1] = " ("
              /\ Cardinality(Units(findings[rj.RuleID])) = 2
              /\ rj.Message[NounIndex(rj.Message) + 1] = "s"

\* The part of a message between " (" and the closing parenthesis, and the
\* digits between the verb and the noun.
ListPart(msg) ==
    LET open == CHOOSE i \in 1..Len(msg) : msg[i] = " ("
        close == CHOOSE i \in 1..Len(msg) : msg[i] \in {")", ")."}
    IN  SubSeq(msg, open + 1, close - 1)
NumberPart(msg) == SubSeq(msg, 3, NounIndex(msg) - 1)

\* The strings of a set, each once, in ascending order, joined by ", ".
Ascending(set) ==
    CHOOSE s \in [1..Cardinality(set) -> set] :
        /\ { s[i] : i \in DOMAIN s } = set
        /\ \A i \in 1..Len(s) - 1 : StrLess(s[i], s[i + 1])
CommaJoined(ss) ==
    LET j[k \in 0..Len(ss)] ==
            IF k = 0 THEN Empty
            ELSE IF k = 1 THEN ss[1]
            ELSE j[k - 1] \o <<",", " ">> \o ss[k]
    IN  j[Len(ss)]

\* Two function-level findings in packages b and a, in that order.
ExampleB ==
    LET fn(p) == [Package |-> [PkgPath |-> <<p>>, Module |-> ModM],
                  Name |-> <<"F">>, Recv |-> Empty]
    IN  << [OSV |-> V1, Trace |-> tracefromEntries(<<FnMain, fn("b")>>)],
           [OSV |-> V1, Trace |-> tracefromEntries(<<FnMain, fn("a")>>)] >>

\* C13: the list of a message is the set of distinct sink packages of the
\* group (sink modules for a module-tier group), each once, in ascending
\* order, and the number in the message is the size of that set; two
\* function-level findings in packages a and b give "Your code calls
\* vulnerable functions in 2 packages (a, b).".
C13_UnitList ==
    Returned(out) =>
        /\ \A i \in 1..Len(out.s.Results) :
              LET r == out.s.Results[i]
                  units == Units(findings[r.RuleID])
              IN  /\ ListPart(r.Message) = CommaJoined(Ascending(units))
                  /\ NumberPart(r.Message) = Itoa(Cardinality(units))
        /\ resultMessage(ExampleB, cfg) =
              <<"Your code ", "calls vulnerable functions in ", "2",
                " package", "s", " (", "a", ",", " ", "b", ").">>

\* C13 witness: a flushed group of three findings in two packages whose first
\* finding has the greater package.
C13_Witness ==
    /\ Returned(out)
    /\ \E i \in 1..Len(out.s.Results) :
          LET r == out.s.Results[i]
              fs == findings[r.RuleID]
          IN  /\ Len(fs) = 3
              /\ Cardinality(Units(fs)) = 2
              /\ \E k \in 2..3 : StrLess(Sink(fs[k]).Package, Sink(fs[1]).Package)
              /\ NumberPart(r.Message) = <<"2">>

(***************************************************************************)
(* Properties of the stacks.                                               *)
(***************************************************************************)
\* "A call stack for vulnerable function <package>.[<receiver>.]<function>"
\* for the sink of f.
Label(f) ==
    StackPrefix \o Sink(f).Package \o <<".">>
    \o (IF Sink(f).Receiver = Empty THEN Empty ELSE Sink(f).Receiver \o <<".">>)
    \o Sink(f).Function

Bijections(n) ==
    { p \in [1..n -> 1..n] : \A i, j \in 1..n : i # j => p[i] # p[j] }

\* C14: the result of a package- or module-tier group has no stacks; the
\* result of a function-tier group has exactly one stack per retained
\* finding, and its stacks are in non-decreasing order of their labels.
C14_StacksOnlyForFunctionTier ==
    Returned(out) =>
        \A i \in 1..Len(out.s.Results) :
            LET r == out.s.Results[i]
                fs == findings[r.RuleID]
                ss == r.Stacks
            IN  /\ Tier(fs[1]) < 3 => ss = << >>
                /\ Tier(fs[1]) = 3 =>
                      /\ Len(ss) = Len(fs)
                      /\ \E p \in Bijections(Len(fs)) :
                            \A k \in 1..Len(fs) :
                                /\ ss[k].Message = Label(fs[p[k]])
                                /\ Len(ss[k].Frames) = Len(fs[p[k]].Trace)
                      /\ \A k \in 1..Len(ss) - 1 :
                            ~StrLess(ss[k + 1].Message, ss[k].Message)

\* C14 witness: a flushed function-tier group of three findings, two of them
\* with the same label, whose first finding has the greatest label.
C14_Witness ==
    /\ Returned(out)
    /\ \E i \in 1..Len(out.s.Results) :
          LET r == out.s.Results[i]
              fs == findings[r.RuleID]
          IN  /\ Len(r.Stacks) = 3
              /\ StrLess(Label(fs[2]), Label(fs[1]))
              /\ Label(fs[2]) = Label(fs[3])
              /\ fs[2] # fs[3]

\* The stack s is the stack of the finding f: as many frames as the trace,
\* the i-th frame (from 1) carrying the module of the i-th frame of the trace
\* from its end, and the label naming the sink of the trace.
StackOfFinding(s, f) ==
    LET n == Len(f.Trace)
    IN  /\ Len(s.Frames) = n
        /\ \A i \in 1..n : s.Frames[i].Module = f.Trace[n + 1 - i].Module
        /\ s.Message = Label(f)

\* The frames of the stack s follow the entries of the call stack cs, entry
\* point first, and the label names the last entry of cs.
StackOfCallStack(s, cs) ==
    LET sink == cs[Len(cs)]
    IN  /\ Len(s.Frames) = Len(cs)
        /\ \A i \in 1..Len(cs) : s.Frames[i].Module = cs[i].Package.Module.Path
        /\ s.Message = StackPrefix \o sink.Package.PkgPath \o <<".">>
              \o (IF sink.Recv = Empty THEN Empty ELSE sink.Recv \o <<".">>)
              \o sink.Name

\* C15: the stacks of a result are the stacks of the group's findings, each
\* with the frames of the trace in reverse; for a trace that tracefromEntries
\* built from a call stack, the frames are in the order of the call stack's
\* entries and the label names its last entry, the sink Trace[0].
C15_FrameOrderRoundTrip ==
    Returned(out) =>
        \A i \in 1..Len(out.s.Results) :
            LET r == out.s.Results[i]
                fs == findings[r.RuleID]
            IN  Tier(fs[1]) = 3 =>
                    \E p \in Bijections(Len(fs)) :
                        \A k \in 1..Len(fs) :
                            /\ StackOfFinding(r.Stacks[k], fs[p[k]])
                            /\ \A cs \in CallStacks :
                                  tracefromEntries(cs) = fs[p[k]].Trace
                                      => StackOfCallStack(r.Stacks[k], cs)

\* C15 witness: a flushed stack of two frames from different modules, built
\* from a call stack, whose last frame is the sink's.
C15_Witness ==
    /\ Returned(out)
    /\ \E i \in 1..Len(out.s.Results) :
          LET r == out.s.Results[i]
              fs == findings[r.RuleID]
          IN  \E k \in 1..Len(r.Stacks), j \in 1..Len(fs), cs \in CallStacks :
                  /\ Len(cs) = 2
                  /\ tracefromEntries(cs) = fs[j].Trace
                  /\ StackOfCallStack(r.Stacks[k], cs)
                  /\ r.Stacks[k].Frames[1].Module # r.Stacks[k].Frames[2].Module
                  /\ r.Stacks[k].Frames[2].Module = fs[j].Trace[1].Module

(***************************************************************************)
(* Properties of the stored definitions and of the calls.                  *)
(***************************************************************************)
\* The identifiers with a retained group and no definition.
Undefined == DOMAIN findings \ DOMAIN osvs

\* C16: a Flush called while the identifier of a retained group has no
\* definition does not return: it panics, and no document is written.
C16_FlushFailsOnUndefined ==
    (out.op = "Flush" /\ Undefined # {}) => out.outcome = "panic"

\* C16 witness: Flush panicked with a configuration set, one group defined
\* and another one not.
C16_Witness ==
    /\ out.op = "Flush"
    /\ out.outcome = "panic"
    /\ cfg # NilCfg
    /\ Undefined # {}
    /\ DOMAIN findings \cap DOMAIN osvs # {}

\* The indices of the calls OSV(e) with e.ID = id in the log, and the entry
\* of the most recent one.
OSVCalls(log, id) ==
    { i \in 1..Len(log) : log[i].kind = "OSV" /\ log[i].arg.ID = id }
LastDefinition(log, id) == log[MaxOf(OSVCalls(log, id))].arg

\* The rule the specification describes for a definition: the descriptions
\* use the summary, or the details when the summary is empty.
RuleBuiltFrom(rule, e) ==
    LET text == IF e.Summary # Empty THEN e.Summary ELSE e.Details
    IN  /\ rule.ID = e.ID
        /\ rule.ShortDescription = <<"[">> \o e.ID \o <<"]", " ">> \o text
        /\ rule.FullDescription = text
        /\ rule.Help = e.Details
        /\ rule.Tags = e.Aliases

\* C17: after any sequence of calls the stored definition of an identifier
\* is the one of the most recent call of OSV with that identifier (none if
\* there was no such call); a call repeating the call before it leaves the
\* definitions as they were after that call; and the rule Flush emits for an
\* identifier is built from that last definition.
C17_LastWriteWins ==
    /\ DOMAIN osvs = { id \in IDs : OSVCalls(sent, id) # {} }
    /\ \A id \in DOMAIN osvs : osvs[id] = LastDefinition(sent, id)
    /\ (Len(sent) >= 2 /\ sent[Len(sent)] = sent[Len(sent) - 1]
            /\ sent[Len(sent)].kind = "OSV")
        => LET once == SubSeq(sent, 1, Len(sent) - 1)
           IN  \A id \in DOMAIN osvs : osvs[id] = LastDefinition(once, id)
    /\ Returned(out) =>
          \A i \in 1..Len(out.s.Rules) :
              RuleBuiltFrom(out.s.Rules[i],
                            LastDefinition(sent, out.s.Rules[i].ID))

\* C17 witness: an identifier was defined twice with different definitions,
\* the second one without a summary, and Flush emitted its rule with the
\* details of the second.
C17_Witness ==
    /\ Returned(out)
    /\ \E i, j \in OSVCalls(sent, V1) :
          /\ i < j
          /\ sent[i].arg.Summary # Empty
          /\ sent[j].arg.Summary = Empty
    /\ \E i \in 1..Len(out.s.Rules) :
          /\ out.s.Rules[i].ID = V1
          /\ out.s.Rules[i].FullDescription = Det2

\* The indices of the calls Finding(f) with f.OSV = id in the log.
FindingCalls(log, id) ==
    { i \in 1..Len(log) : log[i].kind = "Finding" /\ log[i].arg.OSV = id }

\* C18 (invariant I2 and its converse): a group exists for an identifier if
\* and only if a finding with that identifier was submitted; every existing
\* group is non-empty; every member of the group of X has OSV = X.
C18_GroupsOfSubmittedFindings ==
    /\ \A id \in IDs : id \in DOMAIN findings <=> FindingCalls(sent, id) # {}
    /\ DOMAIN findings \subseteq IDs
    /\ \A id \in DOMAIN findings :
          /\ Len(findings[id]) >= 1
          /\ \A k \in 1..Len(findings[id]) : findings[id][k].OSV = id

\* C18 witness: the only group keeps a single finding of the two submitted
\* for its identifier, and another identifier has a definition and no group.
C18_Witness ==
    /\ DOMAIN findings = {V1}
    /\ Cardinality(FindingCalls(sent, V1)) = 2
    /\ Len(findings[V1]) = 1
    /\ V3 \in DOMAIN osvs

\* The step is a call of OSV or Finding: the log grows by one submission of
\* that kind.
Submits(kind) ==
    /\ Len(sent') = Len(sent) + 1
    /\ sent'[Len(sent')].kind = kind
Submitted == sent'[Len(sent')].arg

\* The maps m and m' agree outside the key k: the same other keys with the
\* same values.
SameExcept(m, mp, k) ==
    /\ DOMAIN m \ {k} = DOMAIN mp \ {k}
    /\ \A id \in DOMAIN m \ {k} : mp[id] = m[id]

FindingFrame ==
    Submits("Finding") =>
        /\ SameExcept(findings, findings', Submitted.OSV)
        /\ osvs' = osvs
        /\ cfg' = cfg
OSVFrame ==
    Submits("OSV") =>
        /\ SameExcept(osvs, osvs', Submitted.ID)
        /\ findings' = findings
FlushFrame ==
    (out = NoFlush /\ out' # NoFlush) =>
        /\ osvs' = osvs
        /\ findings' = findings

\* C19: Finding(f) changes at most the group of f.OSV and leaves the other
\* groups, the definitions and the configuration unchanged; OSV(e) changes
\* only the definition of e.ID and leaves the groups unchanged; Flush changes
\* neither definitions nor groups.
C19_FrameConditions ==
    [][FindingFrame /\ OSVFrame /\ FlushFrame]_vars

\* C19 witness: Finding was called with a configuration set, a definition
\* stored and the group of another identifier present, and changed the group
\* of its own identifier.
C19_Witness ==
    /\ Len(sent) = 3
    /\ sent[3].kind = "Finding"
    /\ sent[2].kind = "Finding"
    /\ sent[2].arg.OSV # sent[3].arg.OSV
    /\ sent[1].kind = "OSV"
    /\ cfg # NilCfg
    /\ DOMAIN findings = {V1, V2}

(***************************************************************************)
(* emitBinaryResult: the findings of a binary scan sent to the handler.    *)
(* vr.Vulns is the sequence vulns; the map callstacks, keyed by the        *)
(* vulnerability, is indexed by the position of the vulnerability in       *)
(* vulns.  A call stack holds at least its vulnerable symbol, and the      *)
(* symbol's package is the import sink of the vulnerability.  The sarif    *)
(* handler's Finding returns nil, so the loops are not left early.         *)
(***************************************************************************)
\* Number of vulnerabilities of the result.
MaxVulns == 4

\* The value of callstacks[vv]: nil for a vulnerability without call stack.
NilStack == [nil |-> TRUE]
StackOf(cs) == [nil |-> FALSE, entries |-> cs]
StackLen(st) == IF st.nil THEN 0 ELSE Len(st.entries)

BinaryVulns == { [OSV |-> id, ImportSink |-> p] : id \in {V1, V2}, p \in Packages }
BinaryStacks == { NilStack, StackOf(<<FnMain, FnF>>) }

\* The tests of the two loops: the first skips a vulnerability without call
\* stack, the second one whose OSV was emitted or that has a call stack.
FirstLoopSkips(st) == st.nil

\* A variant of the second loop's test that does not look at emitted.
SecondLoopSkips_IgnoreEmitted(em, vv, st) == StackLen(st) # 0

SecondLoopSkips(em, vv, st) == vv.OSV \in em \/ StackLen(st) # 0

\* The findings of the two loops.
CallFinding(vv, st) ==
    [OSV |-> vv.OSV, Trace |-> tracefromEntries(st.entries)]
ImportFinding(vv) ==
    [OSV |-> vv.OSV, Trace |-> <<frameFromPackage(vv.ImportSink)>>]

InitBinary ==
    /\ cfg = NilCfg
    /\ osvs = << >>
    /\ findings = << >>
    /\ nfind = 0
    /\ last = [op |-> "NewHandler"]
    /\ out = NoFlush
    /\ sent = << >>
    /\ used = {}
    /\ osvs2 = << >>
    /\ findings2 = << >>
    /\ out2 = NoFlush
    /\ \E n \in 0..MaxVulns :
          /\ vulns \in [1..n -> BinaryVulns]
          /\ callstacks \in [1..n -> BinaryStacks]
          /\ \A i \in 1..n :
                ~callstacks[i].nil =>
                    callstacks[i].entries[Len(callstacks[i].entries)].Package
                        = vulns[i].ImportSink
    /\ pc = "first"
    /\ vi = 1
    /\ emitted = {}
    /\ calls = << >>

\* handler.Finding(f), called by emitBinaryResult.
Send(f) ==
    /\ findings' = FindingOp(findings, f)
    /\ nfind' = nfind + 1
    /\ last' = [op |-> "Finding", f |-> f, before |-> Group(findings, f.OSV)]
    /\ calls' = Append(calls, f)
    /\ UNCHANGED <<cfg, osvs, out, pvars>>

FirstLoopSkip ==
    /\ pc = "first"
    /\ vi <= Len(vulns)
    /\ FirstLoopSkips(callstacks[vi])
    /\ vi' = vi + 1
    /\ UNCHANGED <<hvars, pvars, vulns, callstacks, pc, emitted, calls>>

FirstLoopEmit ==
    /\ pc = "first"
    /\ vi <= Len(vulns)
    /\ ~FirstLoopSkips(callstacks[vi])
    /\ emitted' = emitted \cup {vulns[vi].OSV}
    /\ Send(CallFinding(vulns[vi], callstacks[vi]))
    /\ vi' = vi + 1
    /\ UNCHANGED <<vulns, callstacks, pc>>

FirstLoopEnd ==
    /\ pc = "first"
    /\ vi > Len(vulns)
    /\ pc' = "second"
    /\ vi' = 1
    /\ UNCHANGED <<hvars, pvars, vulns, callstacks, emitted, calls>>

SecondLoopSkip ==
    /\ pc = "second"
    /\ vi <= Len(vulns)
    /\ SecondLoopSkips(emitted, vulns[vi], callstacks[vi])
    /\ vi' = vi + 1
    /\ UNCHANGED <<hvars, pvars, vulns, callstacks, pc, emitted, calls>>

SecondLoopEmit ==
    /\ pc = "second"
    /\ vi <= Len(vulns)
    /\ ~SecondLoopSkips(emitted, vulns[vi], callstacks[vi])
    /\ emitted' = emitted \cup {vulns[vi].OSV}
    /\ Send(ImportFinding(vulns[vi]))
    /\ vi' = vi + 1
    /\ UNCHANGED <<vulns, callstacks, pc>>

\* return nil
SecondLoopEnd ==
    /\ pc = "second"
    /\ vi > Len(vulns)
    /\ pc' = "done"
    /\ UNCHANGED <<hvars, pvars, vulns, callstacks, vi, emitted, calls>>

NextBinary ==
    \/ FirstLoopSkip
    \/ FirstLoopEmit
    \/ FirstLoopEnd
    \/ SecondLoopSkip
    \/ SecondLoopEmit
    \/ SecondLoopEnd

SpecBinary == InitBinary /\ [][NextBinary]_vars

(***************************************************************************)
(* Properties of emitBinaryResult.                                         *)
(***************************************************************************)
\* A call-level finding has a function in its sink frame; a package-level
\* finding is a single frame with a package and no function.
CallLevel(f) == Sink(f).Function # Empty
PackageLevel(f) ==
    Len(f.Trace) = 1 /\ Sink(f).Function = Empty /\ Sink(f).Package # Empty
CallsOf(id) == { i \in 1..Len(calls) : calls[i].OSV = id }

\* C20: emitBinaryResult never sends both a call-level and a package-level
\* finding for one OSV id, sends at most one package-level finding per OSV
\* id, sends every call-level finding before any package-level finding, and
\* has sent, when it returns, at least one finding for the OSV id of every
\* vulnerability of the result.
C20_BinaryFindings ==
    /\ \A i \in 1..Len(calls) : CallLevel(calls[i]) \/ PackageLevel(calls[i])
    /\ \A i, j \in 1..Len(calls) :
          (CallLevel(calls[i]) /\ PackageLevel(calls[j]))
              => calls[i].OSV # calls[j].OSV /\ i < j
    /\ \A i, j \in 1..Len(calls) :
          (PackageLevel(calls[i]) /\ PackageLevel(calls[j]) /\ i # j)
              => calls[i].OSV # calls[j].OSV
    /\ pc = "done" => \A k \in 1..Len(vulns) : CallsOf(vulns[k].OSV) # {}

\* C20 witness: emitBinaryResult returned for a result of four
\* vulnerabilities: one OSV id with a vulnerability without call stack before
\* one with a call stack, another OSV id with two vulnerabilities without
\* call stack in different packages; two findings were sent.
C20_Witness ==
    /\ pc = "done"
    /\ Len(vulns) = 4
    /\ vulns[1].OSV = vulns[2].OSV
    /\ callstacks[1].nil /\ ~callstacks[2].nil
    /\ vulns[3].OSV = vulns[4].OSV
    /\ vulns[3].OSV # vulns[1].OSV
    /\ vulns[3].ImportSink # vulns[4].ImportSink
    /\ callstacks[3].nil /\ callstacks[4].nil
    /\ Len(calls) = 2
    /\ CallLevel(calls[1])
    /\ calls[2] = ImportFinding(vulns[3])

====
